---- MODULE Spec2Model ----
(***************************************************************************)
(* Wildlife Health Watch: the record generators (app.py load_data and      *)
(* data/generate_data.py generate_surveillance_data) and the dashboard's   *)
(* filter / aggregate / recent-table pass (app.py main).                   *)
(*                                                                         *)
(* Time is counted in ticks, DayTicks to a day; day 0 is Monday            *)
(* 2018-01-01.  A frame (pandas DataFrame) is a sequence of rows, a row a  *)
(* record of the CaseRecord columns; latitude and longitude, which no      *)
(* property below reads, are left out.                                     *)
(*                                                                         *)
(* Every pseudo-random draw, clock reading, widget value and order of an   *)
(* unstable sort is a choice with a first outcome (the first category, the *)
(* low end of a range, the widget's default, the stable order) and others. *)
(* A run is explored when at most MaxVaried of its choices leave the first *)
(* outcome; `varied` counts them.                                          *)
(***************************************************************************)
EXTENDS Integers, Sequences, FiniteSets, TLC

\* ---------------------------------------------------------------- bounds
MaxRecords == 2     \* rows a generator call produces at most (500 in the source)
MaxVaried == 2      \* choices of one run that leave their first outcome
MaxRequests == 2    \* reruns of main() in one process
DayTicks == 2       \* clock resolution: ticks per day

\* ------------------------------------------------------- program constants
WindowDays == 365   \* timedelta(days=365)
TableRows == 10     \* .head(10)
RecentBucket == 14  \* days_ago < 14
MidBucket == 60     \* days_ago < 60
IdYear == 2024      \* "WHW-2024-"
IdDigits == 4       \* {i+1:04d}

\* ------------------------------------------------------------------ time
DateOf(t) == t \div DayTicks            \* .dt.date / strftime("%Y-%m-%d")
ToDatetime(d) == d * DayTicks           \* pd.to_datetime of a date string: midnight
Days(n) == n * DayTicks                 \* timedelta(days=n)
TimedeltaDays(dt) == dt \div DayTicks   \* (a - b).days, for a >= b

MonthStarts == <<0, 31, 59, 90, 120, 151, 181, 212, 243, 273, 304, 334>>
\* report_date.month, for the non-leap years 2018 and 2019 the model's days lie in
MonthOf(t) ==
  LET doy == DateOf(t) % 365
  IN  Cardinality({m \in 1..12 : MonthStarts[m] <= doy})

\* The clock readings of datetime.now() at generation: mid-February 2019, a Monday
GenDay == WindowDays + 35
NowChoices == [i \in 1..DayTicks |-> ToDatetime(GenDay) + (i - 1)]

\* --------------------------------------------------------------- helpers
Range(lo, hi) == [i \in 1..(hi - lo + 1) |-> lo + i - 1]
Elems(seq) == {seq[i] : i \in DOMAIN seq}
\* The outcomes of a draw that the model explores: first, second and last
Ends(seq) == {seq[1], seq[Len(seq)]}
Ends3(seq) == {seq[1], seq[IF Len(seq) > 1 THEN 2 ELSE 1], seq[Len(seq)]}
Cost(x, first) == IF x = first THEN 0 ELSE 1

RECURSIVE SumSeq(_)
SumSeq(s) == IF s = <<>> THEN 0 ELSE Head(s) + SumSeq(Tail(s))

RECURSIVE Ascending(_)
\* The elements of a finite set of integers, smallest first
Ascending(S) ==
  IF S = {} THEN <<>>
  ELSE LET m == CHOOSE x \in S : \A y \in S : x <= y
       IN  <<m>> \o Ascending(S \ {m})

Column(frame, col) == [i \in DOMAIN frame |-> frame[i][col]]

\* ---------------------------------------------------------- category tables
RegionNames == <<"Maasai Mara", "Amboseli", "Tsavo East", "Tsavo West",
                 "Samburu", "Lake Nakuru", "Nairobi NP", "Meru">>
SpeciesNames == <<"African Elephant", "Lion", "Zebra", "Giraffe", "Buffalo",
                  "Wildebeest", "Hippopotamus", "Rhino", "Cheetah", "Hyena">>
SyndromeNames == <<"Respiratory", "Gastrointestinal", "Neurological", "Dermatological",
                   "Musculoskeletal", "Sudden Death", "Reproductive", "Ocular">>
SeverityLevels == <<"Low", "Moderate", "High", "Critical">>
StatusNames == <<"Active", "Resolved", "Under Investigation">>

\* np.random.choice(a, p=...) / random.choices(a, weights=...): the categories
\* of positive weight, in table order
Support(options, weights) ==
  LET RECURSIVE Keep(_)
      Keep(i) == IF i > Len(options) THEN <<>>
                 ELSE (IF weights[i] > 0 THEN <<options[i]>> ELSE <<>>) \o Keep(i + 1)
  IN  Keep(1)
Uniform(options) == [i \in DOMAIN options |-> 1]

\* weights of app.py, in hundredths
AppSpeciesP == <<15, 8, 20, 12, 18, 12, 5, 2, 3, 5>>
AppSeverityP == <<40, 35, 20, 5>>
ScriptSpeciesWeights == <<15, 8, 20, 12, 18, 15, 5, 2, 3, 7>>
ScriptSeverityWeights == <<40, 35, 20, 5>>

\* status weights by the three-way bucket on days_ago (the same in both files)
StatusWeights(days_ago) ==
  IF days_ago < RecentBucket THEN <<60, 20, 20>>
  ELSE IF days_ago < MidBucket THEN <<30, 50, 20>>
  ELSE <<10, 80, 10>>

\* syndrome weights by season of the month
SyndromeWeights(month) ==
  IF month \in {6, 7, 8} THEN <<25, 15, 10, 15, 10, 10, 5, 10>>
  ELSE IF month \in {3, 4, 5, 11} THEN <<15, 25, 10, 10, 10, 15, 10, 5>>
  ELSE <<15, 15, 15, 15, 10, 15, 10, 5>>

\* random.randint(lo, hi) bounds of n_affected by severity
AffectedRange(severity) ==
  IF severity = "Critical" THEN Range(5, 20)
  ELSE IF severity = "High" THEN Range(3, 10)
  ELSE IF severity = "Moderate" THEN Range(1, 5)
  ELSE Range(1, 3)

\* np.random.randint(1, 10): high end exclusive
AppAffected == Range(1, 9)
\* np.random.randint(0, 365): high end exclusive
AppOffsets == Range(0, WindowDays - 1)
\* faulty variant: an upper end one day past the window
ScriptOffsetsWide == Range(0, WindowDays + 1)
\* random.randint(0, 365): both ends inclusive
ScriptOffsets == Range(0, WindowDays)

\* f"WHW-2024-{i+1:04d}" for the 0-based loop index i: prefix, year, and the
\* decimal digits of i+1 zero-padded to IdDigits
Digits(n) ==
  LET RECURSIVE D(_)
      D(k) == IF k < 10 THEN <<k>> ELSE D(k \div 10) \o <<k % 10>>
  IN  D(n)
ZeroPad(ds, width) ==
  IF Len(ds) >= width THEN ds ELSE [i \in 1..(width - Len(ds)) |-> 0] \o ds
CaseId(i) == <<"WHW", IdYear>> \o ZeroPad(Digits(i + 1), IdDigits)

\* ------------------------------------------------------------ pandas frames
\* faulty variant: pd.DataFrame(data, columns=[...]), the columns named up front
DataFrameColumnsFixed(data) ==
  {"case_id", "report_date", "region", "species", "syndrome", "severity",
   "status", "animals_affected"}
\* pd.DataFrame(data) of a list of dicts: the columns are the dicts' keys, and an
\* empty list gives a frame with no columns at all
DataFrameColumns(data) == IF data = <<>> THEN {} ELSE DOMAIN data[1]

Injections(n) == {p \in [1..n -> 1..n] : \A i, j \in 1..n : i # j => p[i] # p[j]}
InOrder(a, b, ascending) == IF ascending THEN a <= b ELSE a >= b
\* frame.sort_values(col, ascending=...) with the default kind="quicksort", which
\* is not a stable sort: every order of the rows that is sorted on col is a
\* possible result.  Stable(p) is the order a stable sort would give.
SortedOrders(frame, col, ascending) ==
  {p \in Injections(Len(frame)) :
     \A i, j \in 1..Len(frame) :
        i < j => InOrder(frame[p[i]][col], frame[p[j]][col], ascending)}
Stable(frame, col, p) ==
  \A i, j \in 1..Len(frame) :
     (i < j /\ frame[p[i]][col] = frame[p[j]][col]) => p[i] < p[j]
Permuted(frame, p) == [i \in 1..Len(frame) |-> frame[p[i]]]
\* The results [df, left] of a sort that may spend `b` more varied choices
sort_values(frame, col, ascending, b) ==
  {[df |-> Permuted(frame, p),
    left |-> b - (IF Stable(frame, col, p) THEN 0 ELSE 1)] :
     p \in {q \in SortedOrders(frame, col, ascending) :
              b > 0 \/ Stable(frame, col, q)}}

\* ------------------------------------------------------------ the draws
\* One more draw for the partial run p = [c, left]: c maps the names drawn so
\* far to their values, left is the number of varied choices p may still make.
\* `options` is the sequence of possible outcomes, `sample` its explored part.
Draw(p, name, options, sample) ==
  {[c |-> p.c @@ (name :> x), left |-> p.left - Cost(x, options[1])] :
     x \in IF p.left > 0 THEN sample ELSE {options[1]}}

\* datetime.now(), then start_date = end_date - timedelta(days=365)
DrawNow(b) ==
  {[c |-> ("end_date" :> now) @@ ("start_date" :> now - Days(WindowDays)),
    left |-> b - Cost(now, NowChoices[1])] :
     now \in IF b > 0 THEN Elems(NowChoices) ELSE {NowChoices[1]}}

ReportDate(c) == c.start_date + Days(c.days_offset)    \* start_date + timedelta(days=days_offset)
DaysAgo(c) == TimedeltaDays(c.end_date - ReportDate(c))  \* (end_date - report_date).days

\* ------------------------------------------------- app.py: load_data's loop
\* the draws of one iteration, in the order of the source
AppDraws(P) ==
  LET regions == Support(RegionNames, Uniform(RegionNames))
      species_list == Support(SpeciesNames, AppSpeciesP)
      syndromes == Support(SyndromeNames, Uniform(SyndromeNames))
      severity_levels == Support(SeverityLevels, AppSeverityP)
      status_options(c) == Support(StatusNames, StatusWeights(DaysAgo(c)))
      p1 == UNION {Draw(p, "region", regions, Ends(regions)) : p \in P}
      p2 == UNION {Draw(p, "days_offset", AppOffsets, Ends3(AppOffsets)) : p \in p1}
      p3 == UNION {Draw(p, "species", species_list, Ends(species_list)) : p \in p2}
      p4 == UNION {Draw(p, "syndrome", syndromes, Ends(syndromes)) : p \in p3}
      p5 == UNION {Draw(p, "severity", severity_levels, Elems(severity_levels)) : p \in p4}
      p6 == UNION {Draw(p, "status", status_options(p.c), Ends(status_options(p.c))) : p \in p5}
  IN  UNION {Draw(p, "n_affected", AppAffected, Ends(AppAffected)) : p \in p6}
AppRow(i, c) ==
  [case_id |-> CaseId(i), report_date |-> ReportDate(c),
   region |-> c.region, species |-> c.species, syndrome |-> c.syndrome,
   severity |-> c.severity, status |-> c.status, animals_affected |-> c.n_affected]

RECURSIVE AppLoop(_, _, _)
\* for i in range(n_records): ... data.append({...}); the rows i..n-1, as the
\* set of [data, left], from the clock reading p0 = [c, left]
AppLoop(i, n, p0) ==
  IF i >= n THEN {[data |-> <<>>, left |-> p0.left]}
  ELSE UNION {
         {[data |-> <<AppRow(i, p.c)>> \o rest.data, left |-> rest.left] :
            rest \in AppLoop(i + 1, n, [c |-> p0.c, left |-> p.left])} :
         p \in AppDraws({p0})}

\* The body of load_data: [now, data, df, left] for every explored run of it
LoadOutcomes(b) ==
  UNION { UNION {
      {[now |-> p0.c.end_date, data |-> g.data, df |-> s.df, left |-> s.left] :
         s \in sort_values(g.data, "report_date", TRUE, g.left)} :
      g \in AppLoop(0, MaxRecords, p0)} :
    p0 \in DrawNow(b)}

\* faulty variant: load_data without its decorator
load_data_uncached(cache, b) == LoadOutcomes(b)
\* @st.cache_data on load_data: the body runs on a miss only, and a hit returns
\* the stored frame.  `cache` is <<>> (no entry) or <<frame>>.
load_data(cache, b) ==
  IF cache # <<>>
  THEN {[now |-> 0, data |-> <<>>, df |-> cache[1], left |-> b]}
  ELSE LoadOutcomes(b)

\* --------------------------- data/generate_data.py: generate_surveillance_data
ScriptDraws(P) ==
  LET regions == Support(RegionNames, Uniform(RegionNames))
      species_list == Support(SpeciesNames, ScriptSpeciesWeights)
      syndromes(c) == Support(SyndromeNames, SyndromeWeights(MonthOf(ReportDate(c))))
      severity_levels == Support(SeverityLevels, ScriptSeverityWeights)
      status_options(c) == Support(StatusNames, StatusWeights(DaysAgo(c)))
      p1 == UNION {Draw(p, "region", regions, Ends(regions)) : p \in P}
      p2 == UNION {Draw(p, "days_offset", ScriptOffsets, Ends3(ScriptOffsets)) : p \in p1}
      p3 == UNION {Draw(p, "species", species_list, Ends(species_list)) : p \in p2}
      p4 == UNION {Draw(p, "syndrome", syndromes(p.c), Ends(syndromes(p.c))) : p \in p3}
      p5 == UNION {Draw(p, "severity", severity_levels, Elems(severity_levels)) : p \in p4}
      p6 == UNION {Draw(p, "status", status_options(p.c), Ends(status_options(p.c))) : p \in p5}
  IN  UNION {Draw(p, "n_affected", AffectedRange(p.c.severity),
                  Ends(AffectedRange(p.c.severity))) : p \in p6}
\* the record dict: report_date is the strftime("%Y-%m-%d") string, a date
ScriptRecord(i, c) ==
  [case_id |-> CaseId(i), report_date |-> DateOf(ReportDate(c)),
   region |-> c.region, species |-> c.species, syndrome |-> c.syndrome,
   severity |-> c.severity, status |-> c.status, animals_affected |-> c.n_affected]

RECURSIVE ScriptLoop(_, _, _)
ScriptLoop(i, n, p0) ==
  IF i >= n THEN {[data |-> <<>>, left |-> p0.left]}
  ELSE UNION {
         {[data |-> <<ScriptRecord(i, p.c)>> \o rest.data, left |-> rest.left] :
            rest \in ScriptLoop(i + 1, n, [c |-> p0.c, left |-> p.left])} :
         p \in ScriptDraws({p0})}

\* df["report_date"] = pd.to_datetime(df["report_date"])
ParseDates(frame) ==
  [i \in DOMAIN frame |-> [frame[i] EXCEPT !.report_date = ToDatetime(@)]]

\* generate_surveillance_data(n_records): [now, data, ret, left], where ret is
\* [ok |-> TRUE, df |-> the returned frame] or [ok |-> FALSE, error |-> the
\* exception raised]
generate_surveillance_data(n_records, b) ==
  UNION { UNION {
      IF "report_date" \notin DataFrameColumns(g.data)
      THEN {[now |-> p0.c.end_date, data |-> g.data, left |-> g.left,
             ret |-> [ok |-> FALSE, error |-> "KeyError"]]}
      ELSE {[now |-> p0.c.end_date, data |-> g.data, left |-> s.left,
             ret |-> [ok |-> TRUE, df |-> s.df]] :
              s \in sort_values(ParseDates(g.data), "report_date", TRUE, g.left)} :
      g \in ScriptLoop(0, n_records, p0)} :
    p0 \in DrawNow(b)}

\* ------------------------------------------------------------------ state
VARIABLES
  prog,          \* the entry point this process runs: "app" or "script"
  varied,        \* choices so far that left their first outcome
  requests,      \* reruns of main() so far
  cache,         \* st.cache_data's entry for load_data: <<>> or <<frame>>
  gen,           \* the last run of a generator body: <<>> or <<[now, data]>>
  df,            \* main's df, as the last pass left it
  first_df,      \* <<>> or <<the df the first pass was given>>
  widgets,       \* date_range, selected_region, selected_species,
                 \* selected_severity, selected_status of the last pass
  filtered_df,   \* main's filtered_df
  metrics,       \* the five st.metric values of the last pass
  charts,        \* timeline, species_counts, syndrome_counts: <<>> when the
                 \* chart was not built, else <<its data>>
  recent_df,     \* main's recent_df
  display_df,    \* main's display_df
  n_records,     \* the argument of generate_surveillance_data
  result         \* <<>> or <<what generate_surveillance_data returned or raised>>

vars == <<prog, varied, requests, cache, gen, df, first_df, widgets, filtered_df,
          metrics, charts, recent_df, display_df, n_records, result>>

\* ----------------------------------------------------- app.py: the filters
Unique(frame, col) == {frame[i][col] : i \in DOMAIN frame}

\* lines 294-310, clause by clause
ApplyFilters(df0, w) ==
  LET f1 == IF Len(w.date_range) = 2
            THEN SelectSeq(df0, LAMBDA r : /\ DateOf(r.report_date) >= w.date_range[1]
                                       /\ DateOf(r.report_date) <= w.date_range[2])
            ELSE df0
      f2 == IF w.selected_region # "All"
            THEN SelectSeq(f1, LAMBDA r : r.region = w.selected_region) ELSE f1
      f3 == IF w.selected_species # "All"
            THEN SelectSeq(f2, LAMBDA r : r.species = w.selected_species) ELSE f2
      f4 == IF w.selected_severity # {}
            THEN SelectSeq(f3, LAMBDA r : r.severity \in w.selected_severity) ELSE f3
      f5 == IF w.selected_status # {}
            THEN SelectSeq(f4, LAMBDA r : r.status \in w.selected_status) ELSE f4
  IN  f5

\* ------------------------------------------------- app.py: the aggregations
WeekStart(d) == d - (d % 7)     \* to_period("W"): the week Monday..Sunday of d
\* faulty variant: one row for every week from the first to the last, which has
\* no first week to start from when the frame is empty
create_timeline_span(frame) ==
  IF frame = <<>> THEN <<"ValueError">>
  ELSE LET weeks == {WeekStart(DateOf(frame[i].report_date)) : i \in DOMAIN frame}
           first == CHOOSE w \in weeks : \A v \in weeks : w <= v
           last == CHOOSE w \in weeks : \A v \in weeks : w >= v
           span == Ascending({w \in first..last : w % 7 = first % 7})
       IN  [k \in DOMAIN span |->
              LET rows == SelectSeq(frame, LAMBDA r : WeekStart(DateOf(r.report_date)) = span[k])
              IN  ("Week" :> <<span[k], span[k] + 6>>) @@ ("Cases" :> Len(rows))
                  @@ ("Animals Affected" :> SumSeq(Column(rows, "animals_affected")))]
\* df.groupby(df["report_date"].dt.to_period("W")).agg(count, sum).reset_index(),
\* the periods as strings "start/end": one row per week present, in week order
create_timeline(frame) ==
  LET weeks == Ascending({WeekStart(DateOf(frame[i].report_date)) : i \in DOMAIN frame})
  IN  [k \in DOMAIN weeks |->
         LET rows == SelectSeq(frame, LAMBDA r : WeekStart(DateOf(r.report_date)) = weeks[k])
         IN  ("Week" :> <<weeks[k], weeks[k] + 6>>) @@ ("Cases" :> Len(rows))
             @@ ("Animals Affected" :> SumSeq(Column(rows, "animals_affected")))]

\* faulty variant: the values present, each counted once
value_counts_presence(frame, col) == [v \in Unique(frame, col) |-> 1]
\* df[col].value_counts(): the count of rows for each value present (the order
\* of the rows of the result is not modelled)
value_counts(frame, col) ==
  [v \in Unique(frame, col) |-> Len(SelectSeq(frame, LAMBDA r : r[col] = v))]

\* lines 318-352 (the "this month" delta label is not modelled)
Metrics(frame) ==
  [total_cases |-> Len(frame),
   active_cases |-> Len(SelectSeq(frame, LAMBDA r : r.status = "Active")),
   critical_cases |-> Len(SelectSeq(frame, LAMBDA r : r.severity = "Critical")),
   total_animals |-> SumSeq(Column(frame, "animals_affected")),
   regions_affected |-> Cardinality(Unique(frame, "region"))]

\* lines 356-386: each chart is built only when filtered_df has rows
Charts(frame) ==
  [timeline |-> IF Len(frame) > 0 THEN <<create_timeline(frame)>> ELSE <<>>,
   species_counts |-> IF Len(frame) > 0 THEN <<value_counts(frame, "species")>> ELSE <<>>,
   syndrome_counts |-> IF Len(frame) > 0 THEN <<value_counts(frame, "syndrome")>> ELSE <<>>]

\* .head(n)
HeadRows(frame, n) == SubSeq(frame, 1, IF Len(frame) < n THEN Len(frame) ELSE n)

\* lines 395-397: the eight columns, report_date as strftime("%Y-%m-%d"), renamed
DisplayFrame(frame) ==
  [i \in DOMAIN frame |->
     ("Case ID" :> frame[i].case_id) @@ ("Date" :> DateOf(frame[i].report_date))
     @@ ("Region" :> frame[i].region) @@ ("Species" :> frame[i].species)
     @@ ("Syndrome" :> frame[i].syndrome) @@ ("Severity" :> frame[i].severity)
     @@ ("Status" :> frame[i].status) @@ ("Animals" :> frame[i].animals_affected)]

\* faulty variant: df.sort_values("report_date", ascending=False, inplace=True)
DfSortedInPlace(df0, recent) ==
  Permuted(df0, CHOOSE p \in SortedOrders(df0, "report_date", FALSE) :
                   Stable(df0, "report_date", p))
\* main's df after the pass: filtered_df is a copy, every filter and sort_values
\* returns a new frame, and the column assignments go to display_df, itself a
\* copy; nothing is written to df
DfAfterPass(df0, recent) == df0

\* ------------------------------------------------- app.py: the widget values
Opt(S, first, b) == IF b > 0 THEN S ELSE {first}
\* st.date_input with a range value: a tuple of 0, 1 or 2 dates within
\* [min_value, max_value], the two of a range in order
DateRanges(min_date, max_date) ==
  LET ds == Ends3(Range(min_date, max_date))
  IN  {<<>>} \cup {<<d>> : d \in ds}
      \cup {p \in ds \X ds : p[1] <= p[2]}

\* ---------------------------------------------------------------- actions
Init ==
  /\ prog \in {"app", "script"}
  /\ varied = 0
  /\ requests = 0
  /\ cache = <<>>
  /\ gen = <<>>
  /\ df = <<>>
  /\ first_df = <<>>
  /\ widgets = <<>>
  /\ filtered_df = <<>>
  /\ metrics = <<>>
  /\ charts = <<>>
  /\ recent_df = <<>>
  /\ display_df = <<>>
  /\ n_records = 0
  /\ result = <<>>

\* One rerun of the script: main(), from load_data() to the recent-cases table
main ==
  /\ prog = "app"
  /\ requests < MaxRequests
  /\ \E ld \in load_data(cache, MaxVaried - varied) :
       LET df0 == ld.df
           dates == {DateOf(df0[i].report_date) : i \in DOMAIN df0}
           min_date == CHOOSE d \in dates : \A e \in dates : d <= e
           max_date == CHOOSE d \in dates : \A e \in dates : d >= e
           all_severity == Elems(SeverityLevels)
           status_options == Unique(df0, "status")
       IN
       \E date_range \in Opt(DateRanges(min_date, max_date), <<min_date, max_date>>, ld.left) :
       LET b1 == ld.left - Cost(date_range, <<min_date, max_date>>) IN
       \E selected_region \in Opt({"All"} \cup Unique(df0, "region"), "All", b1) :
       LET b2 == b1 - Cost(selected_region, "All") IN
       \E selected_species \in Opt({"All"} \cup Unique(df0, "species"), "All", b2) :
       LET b3 == b2 - Cost(selected_species, "All") IN
       \E selected_severity \in Opt(SUBSET all_severity, all_severity, b3) :
       LET b4 == b3 - Cost(selected_severity, all_severity) IN
       \E selected_status \in Opt(SUBSET status_options, status_options, b4) :
       LET b5 == b4 - Cost(selected_status, status_options)
           w == [date_range |-> date_range, selected_region |-> selected_region,
                 selected_species |-> selected_species,
                 selected_severity |-> selected_severity,
                 selected_status |-> selected_status]
           filtered == ApplyFilters(df0, w)
       IN
       \E srt \in sort_values(filtered, "report_date", FALSE, b5) :
         /\ cache' = IF cache = <<>> THEN <<df0>> ELSE cache
         /\ gen' = IF cache = <<>> THEN <<[now |-> ld.now, data |-> ld.data]>> ELSE gen
         /\ widgets' = w
         /\ filtered_df' = filtered
         /\ metrics' = Metrics(filtered)
         /\ charts' = Charts(filtered)
         /\ recent_df' = HeadRows(srt.df, TableRows)
         /\ display_df' = DisplayFrame(recent_df')
         /\ df' = DfAfterPass(df0, srt.df)
         /\ first_df' = IF requests = 0 THEN <<df0>> ELSE first_df
         /\ requests' = requests + 1
         /\ varied' = MaxVaried - srt.left
         /\ UNCHANGED <<prog, n_records, result>>

\* One call generate_surveillance_data(n), as the script's __main__ makes it
call_generate ==
  /\ prog = "script"
  /\ result = <<>>
  /\ \E n \in -1..MaxRecords :
     \E g \in generate_surveillance_data(n, MaxVaried - varied) :
       /\ n_records' = n
       /\ result' = <<g.ret>>
       /\ gen' = <<[now |-> g.now, data |-> g.data]>>
       /\ varied' = MaxVaried - g.left
       /\ UNCHANGED <<prog, requests, cache, df, first_df, widgets, filtered_df,
                      metrics, charts, recent_df, display_df>>

Next == main \/ call_generate

Spec == Init /\ [][Next]_vars

\* ============================================================== properties
Store == cache[1]
Rows(frame) == {frame[i] : i \in DOMAIN frame}
RECURSIVE SumOver(_, _)
SumOver(f, S) ==
  IF S = {} THEN 0
  ELSE LET x == CHOOSE y \in S : TRUE IN f[x] + SumOver(f, S \ {x})
\* what a stable sort on report_date would return
StableSorted(frame, ascending) ==
  Permuted(frame, CHOOSE p \in SortedOrders(frame, "report_date", ascending) :
                     Stable(frame, "report_date", p))
DefaultWidgets(w) ==
  /\ Len(w.date_range) = 2
  /\ \A i \in DOMAIN Store : /\ w.date_range[1] <= DateOf(Store[i].report_date)
                             /\ DateOf(Store[i].report_date) <= w.date_range[2]
  /\ w.selected_region = "All"
  /\ w.selected_species = "All"
  /\ w.selected_severity = Elems(SeverityLevels)
  /\ w.selected_status = Unique(Store, "status")

\* The clauses of the filter specification a record must satisfy: the date
\* bounds when both are given, the region and the species unless "All", and
\* membership in severity_set and in status_set
Satisfies(r, w) ==
  /\ Len(w.date_range) = 2 =>
       /\ w.date_range[1] <= DateOf(r.report_date)
       /\ DateOf(r.report_date) <= w.date_range[2]
  /\ w.selected_region # "All" => r.region = w.selected_region
  /\ w.selected_species # "All" => r.species = w.selected_species
  /\ r.severity \in w.selected_severity
  /\ r.status \in w.selected_status

\* C1: after every pass, filtered_df holds exactly the records of the Case Store
\* that satisfy every clause of the filter specification (inclusive dates, exact
\* region, exact species, severity in severity_set, status in status_set), in
\* the Case Store's order.
C1_FilterExact ==
  requests >= 1 => filtered_df = SelectSeq(Store, LAMBDA r : Satisfies(r, widgets))

\* C2: an explicitly empty severity_set, and likewise an explicitly empty
\* status_set, makes the filter return zero records.
C2_EmptySetYieldsNothing ==
  (requests >= 1 /\ (widgets.selected_severity = {} \/ widgets.selected_status = {}))
     => filtered_df = <<>>

\* C3: the collection is generated once per process: every pass after the
\* first is given the very collection the first pass was given, and the cached
\* collection is that one.
C3_GeneratedOnce ==
  requests >= 1 => (first_df = <<df>> /\ cache = first_df)
C3_Witness ==
  /\ requests >= 2
  /\ first_df = <<df>>
  /\ ~DefaultWidgets(widgets)

\* C4: a full pass (filters, aggregates, recent table) leaves the Case Store
\* as it was loaded: main's df after the pass is the cached frame, with the
\* generated records and their field values in ascending report_date order.
C4_StoreUnchanged ==
  requests >= 1 =>
    /\ <<df>> = cache
    /\ Rows(df) = Rows(gen[1].data)
    /\ Len(df) = Len(gen[1].data)
    /\ \A i, j \in DOMAIN df : i < j => df[i].report_date <= df[j].report_date
C4_Witness ==
  /\ requests >= 1
  /\ <<df>> = cache
  /\ Len(filtered_df) >= 2
  /\ recent_df # filtered_df
  /\ ~DefaultWidgets(widgets)

\* C5: the weekly series' case counts, the species tally and the syndrome
\* tally each sum to the number of filtered records, and each record falls in
\* exactly one week of the series, one species bucket and one syndrome bucket.
C5_TalliesSum ==
  \A name \in {"timeline", "species_counts", "syndrome_counts"} :
    (requests >= 1 /\ charts[name] # <<>>) =>
      LET t == charts[name][1] IN
      IF name = "timeline"
      THEN /\ SumSeq(Column(t, "Cases")) = Len(filtered_df)
           /\ \A i \in DOMAIN filtered_df :
                Cardinality({k \in DOMAIN t :
                   /\ t[k].Week[1] <= DateOf(filtered_df[i].report_date)
                   /\ DateOf(filtered_df[i].report_date) <= t[k].Week[2]}) = 1
      ELSE LET col == IF name = "species_counts" THEN "species" ELSE "syndrome" IN
           /\ SumOver(t, DOMAIN t) = Len(filtered_df)
           /\ \A i \in DOMAIN filtered_df : filtered_df[i][col] \in DOMAIN t
C5_Witness ==
  /\ requests >= 1
  /\ charts.timeline # <<>>
  /\ Len(charts.timeline[1]) >= 2
  /\ Len(filtered_df) >= 2
  /\ \E v \in DOMAIN charts.syndrome_counts[1] : charts.syndrome_counts[1][v] >= 2

\* C6: the recent table holds the min(10, n) records of latest report_date,
\* in descending report_date order, records of equal report_date in their
\* order in the filtered collection (a stable sort).
C6_RecentStable ==
  requests >= 1 => recent_df = HeadRows(StableSorted(filtered_df, FALSE), TableRows)

\* C7: when the filtered set is empty the pass completes with all five
\* metrics 0, no weekly series, no tallies and an empty recent table, and each
\* aggregation applied to the empty collection returns an empty result.
C7_EmptyDegrades ==
  (requests >= 1 /\ filtered_df = <<>>) =>
    /\ metrics = [total_cases |-> 0, active_cases |-> 0, critical_cases |-> 0,
                  total_animals |-> 0, regions_affected |-> 0]
    /\ charts = [timeline |-> <<>>, species_counts |-> <<>>, syndrome_counts |-> <<>>]
    /\ recent_df = <<>>
    /\ display_df = <<>>
    /\ create_timeline(filtered_df) = <<>>
    /\ DOMAIN value_counts(filtered_df, "species") = {}
    /\ DOMAIN value_counts(filtered_df, "syndrome") = {}
C7_Witness ==
  /\ requests >= 1
  /\ filtered_df = <<>>
  /\ df # <<>>
  /\ metrics.total_cases = 0

\* the frame a generator handed out: load_data's, or generate_surveillance_data's
Generated ==
  IF cache # <<>> THEN {cache[1]}
  ELSE IF result # <<>> /\ result[1].ok THEN {result[1].df}
  ELSE {}

\* C8: in every generated collection a Critical record has animals_affected in
\* the range reserved for Critical (5..20).
C8_CriticalRange ==
  \A frame \in Generated : \A i \in DOMAIN frame :
     frame[i].severity = "Critical" =>
        frame[i].animals_affected \in Elems(AffectedRange("Critical"))

\* C9: generate_surveillance_data(n) with n <= 0 fails (an exception reaches
\* the caller and no collection is returned), and with n > 0 returns exactly
\* n records.
C9_NonPositiveFails ==
  result # <<>> =>
    IF n_records <= 0
    THEN ~result[1].ok /\ "df" \notin DOMAIN result[1]
    ELSE result[1].ok /\ Len(result[1].df) = n_records
C9_Witness ==
  /\ result # <<>>
  /\ n_records <= 0
  /\ ~result[1].ok

\* C10: in every generated collection the case_ids are pairwise distinct and
\* every report_date is a day of the window from 365 days before the
\* generation instant to the generation instant, in the list the loop built
\* and in the frame sorted by report_date, which holds the same records under
\* the same case_ids.
C10_UniqueIdsInWindow ==
  \A frame \in Generated :
    LET now == gen[1].now
        data == gen[1].data
        DayOfData(r) == IF prog = "script" THEN r.report_date ELSE DateOf(r.report_date)
        InWindow(d) == DateOf(now) - WindowDays <= d /\ d <= DateOf(now)
    IN  /\ \A i, j \in DOMAIN data : i # j => data[i].case_id # data[j].case_id
        /\ \A i, j \in DOMAIN frame : i # j => frame[i].case_id # frame[j].case_id
        /\ \A i \in DOMAIN data : InWindow(DayOfData(data[i]))
        /\ \A i \in DOMAIN frame : InWindow(DateOf(frame[i].report_date))
        /\ Len(frame) = Len(data)
        /\ \A i \in DOMAIN data : \E j \in DOMAIN frame :
             /\ frame[j].case_id = data[i].case_id
             /\ DateOf(frame[j].report_date) = DayOfData(data[i])
             /\ frame[j].region = data[i].region
C10_Witness ==
  /\ prog = "script"
  /\ result # <<>>
  /\ result[1].ok
  /\ Len(result[1].df) >= 2
  /\ result[1].df[1].case_id # gen[1].data[1].case_id
  /\ \E i \in DOMAIN result[1].df :
       DateOf(result[1].df[i].report_date) = DateOf(gen[1].now)

====
